---- MODULE Spec2Model ----
(***************************************************************************)
(* obsidian-pdf-utils: the path checks of SafetyUtils, the page extraction *)
(* and the temp-then-final save protocol of PDFProcessor, and the split    *)
(* operation of PDFResectorModal, over a model of the vault adapter.       *)
(*                                                                         *)
(* A string is a sequence of one-character strings; a document is the      *)
(* sequence of its pages; the vault is the set of its directories and a    *)
(* function from the paths of its files to their bytes.                    *)
(***************************************************************************)
EXTENDS Integers, Sequences, FiniteSets, TLC

VARIABLES
    files,        \* vault adapter: path of each existing file -> its bytes
    dirs,         \* vault adapter: the paths of the existing directories
    modalOpen,    \* a PDFResectorModal is open
    pdfPath,      \* PDFResectorModal.pdfPath
    doc,          \* PDFResectorModal.doc (None, or Some(pages))
    startPage,    \* PDFResectorModal.startPage
    endPage,      \* PDFResectorModal.endPage
    outputName,   \* PDFResectorModal.outputName
    outputDir,    \* PDFResectorModal.outputDir
    notice,       \* the last Notice shown by the modal
    mode,         \* which entry point drives the behaviour
    pc,           \* the await the running operation stands at
    caller,       \* who awaits validateAndCreatePath: savePDF called by "split" or
                  \* "direct", "ensureSafeOutput", or "none"
    newDoc,       \* the document returned by extractPages / handed to savePDF
    outputPath,   \* savePDF's outputPath argument
    safePath,     \* savePDF's safePath (None until validateAndCreatePath returns)
    tempPath,     \* savePDF's tempPath
    pdfBytes,     \* savePDF's pdfBytes (None until doc.save() returns)
    error,        \* the error being thrown, "none" when none
    result,       \* how the last processor call ended
    calls,        \* the adapter calls issued by the running operation
    preFiles,     \* files when the running operation began
    preDirs,      \* dirs when the running operation began
    ops,          \* operations begun so far
    filename,     \* sanitizePath's argument
    sanitized,    \* sanitizePath(filename)
    resanitized,  \* sanitizePath(sanitized)
    directory,    \* ensureDirectoryExists' / validateAndCreatePath's directory
    parts,        \* ensureDirectoryExists' parts
    part,         \* the position in parts of the for loop's part
    currentPath,  \* ensureDirectoryExists' currentPath
    sourceSize,   \* the size in bytes the adapter reports for the file at pdfPath
    stat,         \* loadPDF's stat (None for null, or Some(size))
    loads         \* the paths of the modal's loadPDF calls that have not settled

fsVars    == <<files, dirs>>
modalVars == <<modalOpen, pdfPath, doc, startPage, endPage, outputName, outputDir, notice>>
saveVars  == <<caller, newDoc, outputPath, safePath, tempPath, pdfBytes, error, result,
               calls, preFiles, preDirs, ops>>
pureVars  == <<filename, sanitized, resanitized>>
provVars  == <<directory, parts, part, currentPath>>
loadVars  == <<sourceSize, stat, loads>>
vars      == <<fsVars, modalVars, saveVars, pureVars, provVars, loadVars, mode, pc>>

\* an optional value: None, or Some(v)
None == <<>>
Some(v) == <<v>>

-----------------------------------------------------------------------------
(* Bounds of the model. *)

\* longest filename enumerated for sanitizePath
MaxNameLen == 4
\* longest candidate path enumerated for isPathInVault / validateAndCreatePath
MaxPathLen == 4
\* most pages of a source document
MaxPages == 2
\* most split operations begun in one behaviour
MaxOps == 1
\* longest directory enumerated for ensureDirectoryExists
MaxDirLen == 4
\* most calls of ensureDirectoryExists made one after the other
MaxEnsureCalls == 2
\* most loadPDF calls of the modal that have not settled at one time
MaxLoads == 2

-----------------------------------------------------------------------------
(* JavaScript string operations, on sequences of characters. *)

\* String.prototype.includes
Includes(s, sub) ==
    \E i \in 1..(Len(s) - Len(sub) + 1) : SubSeq(s, i, i + Len(sub) - 1) = sub

\* String.prototype.lastIndexOf for one character: 0-based, -1 when absent
LastIndexOf(s, c) ==
    IF \E i \in 1..Len(s) : s[i] = c
    THEN (CHOOSE i \in 1..Len(s) : s[i] = c /\ \A j \in (i+1)..Len(s) : s[j] # c) - 1
    ELSE -1

\* String.prototype.slice(from) / substring(0, to), 0-based
SliceFrom(s, from) == SubSeq(s, from + 1, Len(s))
SliceTo(s, to) == SubSeq(s, 1, to)

\* String.prototype.endsWith / startsWith
EndsWith(s, suf) ==
    Len(s) >= Len(suf) /\ SubSeq(s, Len(s) - Len(suf) + 1, Len(s)) = suf
StartsWith(s, pre) == Len(s) >= Len(pre) /\ SubSeq(s, 1, Len(pre)) = pre

\* the characters \s and trim() treat as whitespace (space and tab stand for the class)
Whitespace == {" ", "\t"}

RECURSIVE DropWhile(_, _)
DropWhile(s, class) ==
    IF s # <<>> /\ s[1] \in class THEN DropWhile(Tail(s), class) ELSE s

RECURSIVE DropWhileEnd(_, _)
DropWhileEnd(s, class) ==
    IF s # <<>> /\ s[Len(s)] \in class
    THEN DropWhileEnd(SubSeq(s, 1, Len(s) - 1), class) ELSE s

\* str.replace(/[class]+/g, rep): every maximal run of class characters becomes rep
RECURSIVE ReplaceRuns(_, _, _)
ReplaceRuns(s, class, rep) ==
    IF s = <<>> THEN <<>>
    ELSE IF s[1] \in class
         THEN <<rep>> \o ReplaceRuns(DropWhile(s, class), class, rep)
         ELSE <<s[1]>> \o ReplaceRuns(Tail(s), class, rep)

\* String.prototype.trim
Trim(s) == DropWhileEnd(DropWhile(s, Whitespace), Whitespace)

\* String.prototype.split('/'): the pieces between the separators, empty ones kept
RECURSIVE Split(_, _)
Split(s, sep) ==
    IF \E i \in 1..Len(s) : s[i] = sep
    THEN LET i == CHOOSE k \in 1..Len(s) : s[k] = sep /\ \A j \in 1..(k-1) : s[j] # sep
         IN  <<SubSeq(s, 1, i - 1)>> \o Split(SubSeq(s, i + 1, Len(s)), sep)
    ELSE <<s>>

\* Array.prototype.join('/')
RECURSIVE Join(_, _)
Join(pieces, sep) ==
    IF pieces = <<>> THEN <<>>
    ELSE IF Len(pieces) = 1 THEN pieces[1]
    ELSE pieces[1] \o <<sep>> \o Join(Tail(pieces), sep)

\* every sequence over chars of length at most n
RECURSIVE StringsUpTo(_, _)
StringsUpTo(chars, n) ==
    IF n = 0 THEN {<<>>}
    ELSE LET shorter == StringsUpTo(chars, n - 1)
         IN  shorter \cup {Append(s, c) : s \in shorter, c \in chars}

-----------------------------------------------------------------------------
(* SafetyUtils: sanitizePath and sanitizeString. *)

\* the class [<>:"|?*\\] of sanitizeString's first replace
InvalidChars == {"<", ">", ":", "\"", "|", "?", "*", "\\"}

ReplaceInvalid(str) ==
    [i \in 1..Len(str) |-> IF str[i] \in InvalidChars THEN "-" ELSE str[i]]
NormalizeSpaces(str) == ReplaceRuns(str, Whitespace, " ")
CollapseDashes(str) == ReplaceRuns(str, {"-"}, "-")

\* sanitizeString with the dashes collapsed before the invalid characters are replaced
sanitizeStringDashesFirst(str) ==
    Trim(NormalizeSpaces(ReplaceInvalid(CollapseDashes(str))))

sanitizeString(str) ==
    Trim(CollapseDashes(NormalizeSpaces(ReplaceInvalid(str))))

\* sanitizePath sanitizing the extension with the base
sanitizePathWhole(name) ==
    sanitizeString(name)

sanitizePath(name) ==
    LET lastDotIndex == LastIndexOf(name, ".")
    IN  IF lastDotIndex = -1
        THEN sanitizeString(name)
        ELSE LET baseName  == SliceTo(name, lastDotIndex)
                 extension == SliceFrom(name, lastDotIndex)
             IN  sanitizeString(baseName) \o extension

-----------------------------------------------------------------------------
(* SafetyUtils: isPathInVault. *)

\* the components checked with some() in place of every()
ComponentsSafeSome(path) ==
    LET normalizedPath == DropWhileEnd(DropWhile(path, {"/"}), {"/"})
        pathComponents == Split(normalizedPath, "/")
    IN  \E k \in 1..Len(pathComponents) :
            LET component == pathComponents[k]
            IN  /\ component # <<>>
                /\ component # <<".">>
                /\ component # <<".", ".">>
                /\ ~Includes(component, <<"\\">>)
                /\ ~Includes(component, <<":">>)

\* the every() of isPathInVault over the components of the path, its outer slashes
\* removed
ComponentsSafe(path) ==
    LET normalizedPath == DropWhileEnd(DropWhile(path, {"/"}), {"/"})
        pathComponents == Split(normalizedPath, "/")
    IN  \A k \in 1..Len(pathComponents) :
            LET component == pathComponents[k]
            IN  /\ component # <<>>
                /\ component # <<".">>
                /\ component # <<".", ".">>
                /\ ~Includes(component, <<"\\">>)
                /\ ~Includes(component, <<":">>)

\* isPathInVault without the textual '../' and '..\' guard of its first lines
isPathInVaultNoTraversalGuard(path) ==
    ComponentsSafe(path)

isPathInVault(path) ==
    IF Includes(path, <<".", ".", "/">>) \/ Includes(path, <<".", ".", "\\">>)
    THEN FALSE
    ELSE ComponentsSafe(path)

\* validateAndCreatePath's split of an accepted path: pathParts.pop() || 'output',
\* the joined rest, and the path it returns
FilenameOf(path) ==
    LET pathParts == Split(path, "/")
        popped == pathParts[Len(pathParts)]
    IN  IF popped = <<>> THEN <<"o", "u", "t", "p", "u", "t">> ELSE popped
DirectoryOf(path) ==
    LET pathParts == Split(path, "/")
    IN  Join(SubSeq(pathParts, 1, Len(pathParts) - 1), "/")
SafePathOf(path) ==
    IF DirectoryOf(path) # <<>>
    THEN DirectoryOf(path) \o <<"/">> \o sanitizePath(FilenameOf(path))
    ELSE sanitizePath(FilenameOf(path))

-----------------------------------------------------------------------------
(* Documents: pdf-lib's PDFDocument as the sequence of its pages. *)

\* a source document of n pages, page i holding content i
PagesOf(n) == [i \in 1..n |-> i]

\* doc.save(): the bytes of a document; PDFDocument.load: the document of the bytes
Serialize(d) == [magic |-> "%PDF", pages |-> d]
Parse(bytes) == IF bytes.magic = "%PDF" THEN Some(bytes.pages) ELSE None

\* extractPages' pageIndexes, forgetting to convert to 0-based indexes
pageIndexesOneBased(start, end) ==
    [i \in 1..(IF end - start + 1 > 0 THEN end - start + 1 ELSE 0) |-> (i - 1) + start]

\* Array.from({ length: endPage - startPage + 1 }, (_, i) => i + startPage - 1):
\* a length below 0 counts as 0
pageIndexes(start, end) ==
    [i \in 1..(IF end - start + 1 > 0 THEN end - start + 1 ELSE 0) |-> (i - 1) + start - 1]

\* the for loop of extractPages: newDoc.copyPages(doc, [pageIndex]) then addPage;
\* copyPages throws on an index that names no page of doc
RECURSIVE CopyLoop(_, _, _)
CopyLoop(src, new, idxs) ==
    IF idxs = <<>> THEN [threw |-> FALSE, src |-> src, newDoc |-> new]
    ELSE IF idxs[1] \notin 0..(Len(src) - 1)
         THEN [threw |-> TRUE, src |-> src, newDoc |-> new]
         ELSE CopyLoop(src, Append(new, src[idxs[1] + 1]), Tail(idxs))

extractPages(d, start, end) == CopyLoop(d, <<>>, pageIndexes(start, end))

-----------------------------------------------------------------------------
(* The vault adapter (obsidian's DataAdapter): files and directories. *)

EmptyVault == [p \in {} |-> Serialize(<<>>)]

\* the adapter resolves a path below the vault root: empty segments (a leading,
\* trailing or doubled slash) do not change the file it names
AdapterPath(p) == Join(SelectSeq(Split(p, "/"), LAMBDA seg : seg # <<>>), "/")

\* adapter.exists: a file or a directory is at p (the vault root always is)
Exists(f, d, p) ==
    AdapterPath(p) = <<>> \/ AdapterPath(p) \in DOMAIN f \/ AdapterPath(p) \in d

\* the directories after a mkdir that created p: p and the directories above it
MakeDir(d, p) ==
    LET segs == SelectSeq(Split(p, "/"), LAMBDA seg : seg # <<>>)
    IN  d \cup {Join(SubSeq(segs, 1, k), "/") : k \in 1..Len(segs)}

\* the bytes adapter.readBinary gives for p: None when no file is there
FileAt(f, p) == IF AdapterPath(p) \in DOMAIN f THEN Some(f[AdapterPath(p)]) ELSE None

\* the vault after a writeBinary that stored bytes at p
WriteFile(f, p, bytes) ==
    [q \in DOMAIN f \cup {AdapterPath(p)} |-> IF q = AdapterPath(p) THEN bytes ELSE f[q]]

\* the vault after a remove that deleted p
RemoveFile(f, p) == [q \in DOMAIN f \ {AdapterPath(p)} |-> f[q]]

\* mkdir can create p: no file is at p or at a path above it
CanMakeDir(f, p) ==
    LET segs == SelectSeq(Split(p, "/"), LAMBDA seg : seg # <<>>)
    IN  \A k \in 1..Len(segs) : Join(SubSeq(segs, 1, k), "/") \notin DOMAIN f

\* one adapter call, as recorded in calls, with how it ended: "ok" when it returned
\* having done its work, "fail" when it threw, "exists" when mkdir threw because
\* the directory was already there, "lost" when a write returned without storing
CallOutcome(op, p, outcome) == [op |-> op, path |-> p, outcome |-> outcome]
Call(op, p) == CallOutcome(op, p, "ok")

\* the source PDF of the vault, "d/s.pdf"
SourcePdf == <<"d", "/", "s", ".", "p", "d", "f">>

\* the bytes of a PDF that was in the vault before the operation
OldBytes == Serialize(<<0>>)

-----------------------------------------------------------------------------
(* States of the parts a specification does not use. *)

VaultUnused == files = EmptyVault /\ dirs = {}

ModalUnused ==
    /\ modalOpen = FALSE
    /\ pdfPath = <<>>
    /\ doc = None
    /\ startPage = 1
    /\ endPage = 1
    /\ outputName = <<>>
    /\ outputDir = <<>>
    /\ notice = "none"

SaveUnused ==
    /\ caller = "none"
    /\ newDoc = None
    /\ outputPath = <<>>
    /\ safePath = None
    /\ tempPath = None
    /\ pdfBytes = None
    /\ error = "none"
    /\ result = "none"
    /\ calls = <<>>
    /\ preFiles = EmptyVault
    /\ preDirs = {}
    /\ ops = 0

PureUnused == filename = <<>> /\ sanitized = <<>> /\ resanitized = <<>>

ProvUnused == directory = <<>> /\ parts = <<>> /\ part = 0 /\ currentPath = <<>>

LoadUnused == sourceSize = 0 /\ stat = None /\ loads = <<>>

-----------------------------------------------------------------------------
(* SpecSanitize: sanitizePath applied to every filename of the bound, and   *)
(* applied again to its own result.                                         *)

\* one ordinary character, the dot, two kinds of whitespace, the dash and one
\* character of the invalid class
NameChars == {"a", ".", " ", "\t", "-", ":"}

\* the filename of the spec's scenario C, "My:Notes*.pdf"
ScenarioC == <<"M", "y", ":", "N", "o", "t", "e", "s", "*", ".", "p", "d", "f">>

Filenames == StringsUpTo(NameChars, MaxNameLen) \cup {ScenarioC}

InitSanitize ==
    /\ mode = "sanitize"
    /\ pc = "start"
    /\ filename \in Filenames
    /\ sanitized = <<>>
    /\ resanitized = <<>>
    /\ VaultUnused /\ ModalUnused /\ SaveUnused /\ ProvUnused /\ LoadUnused

Sanitize ==
    /\ mode = "sanitize" /\ pc = "start"
    /\ sanitized' = sanitizePath(filename)
    /\ pc' = "once"
    /\ UNCHANGED <<fsVars, modalVars, saveVars, provVars, loadVars, mode, filename,
                   resanitized>>

SanitizeAgain ==
    /\ mode = "sanitize" /\ pc = "once"
    /\ resanitized' = sanitizePath(sanitized)
    /\ pc' = "twice"
    /\ UNCHANGED <<fsVars, modalVars, saveVars, provVars, loadVars, mode, filename,
                   sanitized>>

NextSanitize == Sanitize \/ SanitizeAgain

SpecSanitize == InitSanitize /\ [][NextSanitize]_vars

\* the part of a filename from its last dot on (empty when it has no dot), and the
\* part before it
ExtensionOf(name) ==
    IF LastIndexOf(name, ".") = -1 THEN <<>> ELSE SliceFrom(name, LastIndexOf(name, "."))
BaseOf(name) ==
    IF LastIndexOf(name, ".") = -1 THEN name ELSE SliceTo(name, LastIndexOf(name, "."))

\* C8: sanitizePath is idempotent: sanitizing a sanitized filename changes nothing
C8_SanitizeIdempotent ==
    pc = "twice" => resanitized = sanitized

\* C8 witness: a filename whose base is only whitespace and dashes and whose
\* extension holds whitespace and an invalid character, sanitized twice
C8_Witness ==
    /\ pc = "twice"
    /\ filename = <<" ", "-", ".", ":">>
    /\ sanitized = <<"-", ".", ":">>
    /\ resanitized = sanitized

\* C9: for a filename with a dot, the result from its last dot on is the input
\* from its last dot on
C9_ExtensionPreserved ==
    (pc # "start" /\ Includes(filename, <<".">>)) =>
        /\ Includes(sanitized, <<".">>)
        /\ ExtensionOf(sanitized) = ExtensionOf(filename)

\* C9 witness: the base is changed while an extension of whitespace and an invalid
\* character is kept as it is
C9_Witness ==
    /\ pc = "once"
    /\ filename = <<":", ".", " ", ":">>
    /\ sanitized = <<"-", ".", " ", ":">>

\* the characters of s that sanitizeString neither replaces nor collapses
OrdinaryChars(s) ==
    SelectSeq(s, LAMBDA c : c \notin InvalidChars \cup Whitespace \cup {"-"})

\* C10: the base of the result has no invalid character, no two adjacent dashes,
\* no whitespace but single spaces inside it, and the ordinary characters of the
\* input base in their order; "My:Notes*.pdf" gives "My-Notes-.pdf"
C10_BaseSanitized ==
    pc # "start" =>
        LET base == BaseOf(sanitized)
        IN  /\ \A i \in 1..Len(base) : base[i] \notin InvalidChars
            /\ \A i \in 1..(Len(base) - 1) : ~(base[i] = "-" /\ base[i + 1] = "-")
            /\ \A i \in 1..(Len(base) - 1) :
                   ~(base[i] \in Whitespace /\ base[i + 1] \in Whitespace)
            /\ \A i \in 1..Len(base) : base[i] \in Whitespace => base[i] = " "
            /\ base # <<>> => (base[1] \notin Whitespace /\ base[Len(base)] \notin Whitespace)
            /\ OrdinaryChars(base) = OrdinaryChars(BaseOf(filename))
            /\ filename = ScenarioC =>
                   sanitized = <<"M", "y", "-", "N", "o", "t", "e", "s", "-", ".", "p", "d", "f">>

\* C10 witness: scenario C has been sanitized
C10_Witness ==
    /\ pc = "once"
    /\ filename = ScenarioC
    /\ sanitized = <<"M", "y", "-", "N", "o", "t", "e", "s", "-", ".", "p", "d", "f">>

-----------------------------------------------------------------------------
(* SpecExtract: PDFProcessor.extractPages called on a loaded document with   *)
(* every start and end page around its page count.                          *)

\* the page count of the spec's scenario A
ScenarioAPages == 10

\* the pages of the source PDF as stored in the vault
SourcePages == (FileAt(files, SourcePdf)[1]).pages

InitExtract ==
    /\ mode = "extract"
    /\ pc = "start"
    /\ \E n \in (1..MaxPages) \cup {ScenarioAPages} :
          /\ files = WriteFile(EmptyVault, SourcePdf, Serialize(PagesOf(n)))
          /\ doc = Parse(Serialize(PagesOf(n)))
          /\ startPage \in -1..(n + 1)
          /\ endPage \in -1..(n + 1)
    /\ dirs = {<<"d">>}
    /\ modalOpen = FALSE /\ pdfPath = SourcePdf
    /\ outputName = <<>> /\ outputDir = <<>> /\ notice = "none"
    /\ SaveUnused /\ PureUnused /\ ProvUnused /\ LoadUnused

ExtractPages ==
    /\ mode = "extract" /\ pc = "start"
    /\ LET r == extractPages(doc[1], startPage, endPage)
       IN  /\ doc' = Some(r.src)
           /\ IF r.threw
              THEN result' = "failed" /\ error' = "copyPages" /\ newDoc' = None
              ELSE result' = "ok" /\ error' = "none" /\ newDoc' = Some(r.newDoc)
    /\ pc' = "extracted"
    /\ UNCHANGED <<fsVars, modalOpen, pdfPath, startPage, endPage, outputName, outputDir,
                   notice, caller, outputPath, safePath, tempPath, pdfBytes, calls,
                   preFiles, preDirs, ops, pureVars, loadVars, provVars, mode>>

NextExtract == ExtractPages

SpecExtract == InitExtract /\ [][NextExtract]_vars

\* C6: for 1 <= start <= end <= N, extractPages returns end - start + 1 pages, the
\* i-th being source page start + i - 1, and the source keeps its N pages
C6_ExtractRange ==
    (pc = "extracted" /\ 1 <= startPage /\ startPage <= endPage
                      /\ endPage <= Len(SourcePages)) =>
        /\ result = "ok"
        /\ newDoc # None
        /\ Len(newDoc[1]) = endPage - startPage + 1
        /\ \A i \in 1..Len(newDoc[1]) : newDoc[1][i] = SourcePages[startPage + i - 1]
        /\ doc = Some(SourcePages)

\* C6 witness: scenario A, pages 3 to 5 of a source of 10 pages
C6_Witness ==
    /\ pc = "extracted"
    /\ Len(SourcePages) = ScenarioAPages
    /\ startPage = 3 /\ endPage = 5
    /\ newDoc = Some(<<3, 4, 5>>)

\* C7 as claimed: extractPages called with start > end, end > N or start < 1 fails
\* and produces no document
C7_RangeRejected ==
    (pc = "extracted" /\ (startPage > endPage \/ endPage > Len(SourcePages)
                                               \/ startPage < 1)) =>
        /\ result = "failed"
        /\ newDoc = None
        /\ doc = Some(SourcePages)

-----------------------------------------------------------------------------
(* SpecProvision: SafetyUtils.ensureDirectoryExists called once and again,  *)
(* and the directory step of validateAndCreatePath, one action for each     *)
(* await, while another process creates directories in the vault.           *)

\* the directories ensureDirectoryExists is called with, and the output paths
\* validateAndCreatePath is called with: a file "o" in each of them
DirChars == {"a", "b", "/"}
Directories == StringsUpTo(DirChars, MaxDirLen)
ProvisionPaths == {d \o <<"/", "o">> : d \in Directories} \cup {<<"o">>}

\* the directory trees and the files of the vault before the call
InitialTrees == {{}, {<<"a">>}, {<<"a">>, <<"a", "/", "b">>}}
InitialFiles == {EmptyVault, WriteFile(EmptyVault, <<"b">>, OldBytes)}

InitProvision ==
    /\ pc = "idle"
    /\ files \in InitialFiles
    /\ dirs \in InitialTrees
    /\ \/ /\ mode = "ensureDirectoryExists"
          /\ directory \in Directories
          /\ outputPath = <<>>
       \/ /\ mode = "validateAndCreatePath"
          /\ directory = <<>>
          /\ outputPath \in ProvisionPaths
    /\ parts = <<>> /\ part = 0 /\ currentPath = <<>>
    /\ ModalUnused /\ PureUnused /\ LoadUnused
    /\ caller = "none" /\ newDoc = None /\ safePath = None /\ tempPath = None
    /\ pdfBytes = None /\ error = "none" /\ result = "none" /\ calls = <<>>
    /\ preFiles = EmptyVault /\ preDirs = {} /\ ops = 0

\* the frame of a provisioning call that has just begun
ProvisionCallBegins ==
    /\ ops' = ops + 1
    /\ calls' = <<>> /\ preFiles' = files /\ preDirs' = dirs
    /\ UNCHANGED <<fsVars, modalVars, caller, newDoc, tempPath, pdfBytes, pureVars, loadVars, mode>>

\* ensureDirectoryExists up to its first await: the empty-argument return, the
\* split and filter, and the first turn of the loop up to exists(currentPath). A
\* caller that awaits the first call makes the second only when the first resolved
EnsureDirectoryExistsCall ==
    /\ mode = "ensureDirectoryExists"
    /\ pc = "idle" \/ (pc = "returned" /\ result = "ok")
    /\ ops < MaxEnsureCalls
    /\ ProvisionCallBegins
    /\ LET split == SelectSeq(Split(directory, "/"), LAMBDA seg : Len(seg) > 0)
       IN  IF directory = <<>> \/ split = <<>>
           THEN /\ parts' = IF directory = <<>> THEN <<>> ELSE split
                /\ part' = 0 /\ currentPath' = <<>>
                /\ result' = "ok" /\ error' = "none"
                /\ pc' = "returned"
           ELSE /\ parts' = split
                /\ part' = 1 /\ currentPath' = split[1]
                /\ result' = "none" /\ error' = "none"
                /\ pc' = "exists"
    /\ UNCHANGED <<directory, outputPath, safePath>>

\* the for loop taking the next part alone as the path, the prefix forgotten
EnsureNextPartNoPrefix ==
    IF part = Len(parts)
    THEN /\ result' = "ok" /\ pc' = "returned"
         /\ UNCHANGED <<part, currentPath>>
    ELSE /\ part' = part + 1
         /\ currentPath' = parts[part + 1]
         /\ pc' = "exists"
         /\ UNCHANGED result

\* the for loop moving on after the directory at currentPath is known to be there
EnsureNextPart ==
    IF part = Len(parts)
    THEN /\ result' = "ok" /\ pc' = "returned"
         /\ UNCHANGED <<part, currentPath>>
    ELSE /\ part' = part + 1
         /\ currentPath' = currentPath \o <<"/">> \o parts[part + 1]
         /\ pc' = "exists"
         /\ UNCHANGED result

\* ensureDirectoryExists issuing a mkdir for every segment, found or not
EnsureExistsAlwaysCreates ==
    /\ mode = "ensureDirectoryExists" /\ pc = "exists"
    /\ calls' = Append(calls, Call("exists", currentPath))
    /\ pc' = "mkdir"
    /\ UNCHANGED <<fsVars, modalVars, caller, newDoc, outputPath, safePath, tempPath,
                   pdfBytes, error, result, preFiles, preDirs, ops, pureVars, loadVars, mode,
                   provVars>>

\* if (!(await this.app.vault.adapter.exists(currentPath)))
EnsureExists ==
    /\ mode = "ensureDirectoryExists" /\ pc = "exists"
    /\ calls' = Append(calls, Call("exists", currentPath))
    /\ IF Exists(files, dirs, currentPath)
       THEN EnsureNextPart
       ELSE pc' = "mkdir" /\ UNCHANGED <<part, currentPath, result>>
    /\ UNCHANGED <<fsVars, modalVars, caller, newDoc, outputPath, safePath, tempPath,
                   pdfBytes, error, preFiles, preDirs, ops, pureVars, loadVars, mode,
                   directory, parts>>

\* the outcomes of adapter.mkdir(p): on a directory that is already there the
\* adapter either returns or throws 'already exists'; on a missing one it creates
\* it or throws
MkdirOutcomes(f, d, p) ==
    IF Exists(f, d, p) THEN {"ok", "exists"}
    ELSE IF CanMakeDir(f, p) THEN {"ok", "fail"}
    ELSE {"fail"}

\* await this.app.vault.adapter.mkdir(currentPath): a throw rejects the call
EnsureMkdir ==
    /\ mode = "ensureDirectoryExists" /\ pc = "mkdir"
    /\ \E outcome \in MkdirOutcomes(files, dirs, currentPath) :
          /\ calls' = Append(calls, CallOutcome("mkdir", currentPath, outcome))
          /\ IF outcome = "ok"
             THEN /\ dirs' = MakeDir(dirs, currentPath)
                  /\ EnsureNextPart
                  /\ UNCHANGED error
             ELSE /\ result' = "failed"
                  /\ error' = IF outcome = "exists" THEN "already exists" ELSE "mkdir"
                  /\ pc' = "returned"
                  /\ UNCHANGED <<dirs, part, currentPath>>
    /\ UNCHANGED <<files, modalVars, caller, newDoc, outputPath, safePath, tempPath,
                   pdfBytes, preFiles, preDirs, ops, pureVars, loadVars, mode, directory, parts>>

\* validateAndCreatePath up to its first await: the isPathInVault check, the split
\* into directory and filename, and the path returned when there is no directory
ValidateAndCreatePathCall ==
    /\ mode = "validateAndCreatePath" /\ pc = "idle" /\ ops = 0
    /\ ProvisionCallBegins
    /\ IF ~isPathInVault(outputPath)
       THEN /\ result' = "failed" /\ error' = "Invalid path"
            /\ pc' = "returned"
            /\ UNCHANGED <<directory, safePath>>
       ELSE /\ directory' = DirectoryOf(outputPath)
            /\ IF directory' = <<>>
               THEN /\ safePath' = Some(SafePathOf(outputPath))
                    /\ result' = "ok" /\ pc' = "returned"
               ELSE /\ pc' = "exists"
                    /\ UNCHANGED <<safePath, result>>
            /\ UNCHANGED error
    /\ UNCHANGED <<outputPath, parts, part, currentPath>>

\* if (!(await this.app.vault.adapter.exists(directory)))
ValidateAndCreatePathExists ==
    /\ mode = "validateAndCreatePath" /\ pc = "exists"
    /\ calls' = Append(calls, Call("exists", directory))
    /\ IF Exists(files, dirs, directory)
       THEN /\ safePath' = Some(SafePathOf(outputPath))
            /\ result' = "ok" /\ pc' = "returned"
       ELSE /\ pc' = "mkdir"
            /\ UNCHANGED <<safePath, result>>
    /\ UNCHANGED <<fsVars, modalVars, caller, newDoc, outputPath, tempPath, pdfBytes,
                   error, preFiles, preDirs, ops, pureVars, loadVars, provVars, mode>>

\* await this.app.vault.adapter.mkdir(directory): a throw is caught and thrown
\* again as 'Failed to create directory'
ValidateAndCreatePathMkdir ==
    /\ mode = "validateAndCreatePath" /\ pc = "mkdir"
    /\ \E outcome \in MkdirOutcomes(files, dirs, directory) :
          /\ calls' = Append(calls, CallOutcome("mkdir", directory, outcome))
          /\ IF outcome = "ok"
             THEN /\ dirs' = MakeDir(dirs, directory)
                  /\ safePath' = Some(SafePathOf(outputPath))
                  /\ result' = "ok"
                  /\ UNCHANGED error
             ELSE /\ result' = "failed" /\ error' = "Failed to create directory"
                  /\ UNCHANGED <<dirs, safePath>>
    /\ pc' = "returned"
    /\ UNCHANGED <<files, modalVars, caller, newDoc, outputPath, tempPath, pdfBytes,
                   preFiles, preDirs, ops, pureVars, loadVars, provVars, mode>>

\* the directory the running call is about to look for or to create
ProvisionTarget == IF mode = "ensureDirectoryExists" THEN currentPath ELSE directory

\* another process creates that directory while the call stands at an await
OtherProcessMkdir ==
    /\ pc \in {"exists", "mkdir"}
    /\ ~Exists(files, dirs, ProvisionTarget)
    /\ CanMakeDir(files, ProvisionTarget)
    /\ dirs' = MakeDir(dirs, ProvisionTarget)
    /\ UNCHANGED <<files, modalVars, saveVars, pureVars, loadVars, provVars, mode, pc>>

NextProvision ==
    \/ EnsureDirectoryExistsCall
    \/ EnsureExists
    \/ EnsureMkdir
    \/ ValidateAndCreatePathCall
    \/ ValidateAndCreatePathExists
    \/ ValidateAndCreatePathMkdir
    \/ OtherProcessMkdir

SpecProvision == InitProvision /\ [][NextProvision]_vars

\* every prefix of the directory's segments is in the vault
PrefixesExist(f, d, dir) ==
    LET segs == SelectSeq(Split(dir, "/"), LAMBDA seg : seg # <<>>)
    IN  \A k \in 1..Len(segs) : Exists(f, d, Join(SubSeq(segs, 1, k), "/"))

\* a mkdir of the running call found the directory created in the meantime
MkdirRaced == \E i \in 1..Len(calls) : calls[i].op = "mkdir" /\ calls[i].outcome = "exists"

\* C11 as claimed: when another process creates the directory between the exists
\* check and the mkdir, and mkdir reports 'already exists', ensureDirectoryExists
\* and validateAndCreatePath still complete successfully
C11_RaceTolerated ==
    (pc = "returned" /\ MkdirRaced) => result = "ok"

\* the running call has issued a mkdir
IssuedMkdir == \E i \in 1..Len(calls) : calls[i].op = "mkdir"

\* C12: ensureDirectoryExists is idempotent: a second call made after the first
\* resolved, and any call on a tree that is already there, resolves with no mkdir
\* issued and the vault as it was when that call began
C12_EnsureIdempotent ==
    (/\ mode = "ensureDirectoryExists"
     /\ ops >= 1
     /\ ops >= 2 \/ PrefixesExist(preFiles, preDirs, directory))
    => /\ ~IssuedMkdir
       /\ dirs = preDirs
       /\ files = preFiles
       /\ pc = "returned" => result = "ok"

\* C12 witness: the second call on "b/a" has resolved after two exists calls, in a
\* vault where neither "b" nor "b/a" was there before the first
C12_Witness ==
    /\ mode = "ensureDirectoryExists"
    /\ ops = 2 /\ pc = "returned" /\ result = "ok"
    /\ directory = <<"b", "/", "a">>
    /\ files = EmptyVault
    /\ {<<"b">>, <<"b", "/", "a">>} \subseteq dirs
    /\ Len(calls) = 2

\* p names a directory strictly above q
ProperPrefix(p, q) == Len(p) < Len(q) /\ SubSeq(q, 1, Len(p)) = p

-----------------------------------------------------------------------------
(* SpecLoad: PDFProcessor.loadPDF on the source path, one action for each    *)
(* await, for source files of every size around the limit.                  *)

\* MAX_PDF_SIZE = 100 * 1024 * 1024
MAX_PDF_SIZE == 104857600

\* the sizes of the source file: empty, small, at the limit and the bytes next to
\* it, and twice the limit
SourceSizes ==
    {0, 1, MAX_PDF_SIZE - 1, MAX_PDF_SIZE, MAX_PDF_SIZE + 1, 2 * MAX_PDF_SIZE}

\* bytes that are no PDF
Garbage == [magic |-> "junk", pages |-> <<>>]

\* the vaults loadPDF starts from: without the source file, with a source PDF of
\* each page count, and with a source file that is no PDF
LoadVaults ==
    {EmptyVault, WriteFile(EmptyVault, SourcePdf, Garbage)}
        \cup {WriteFile(EmptyVault, SourcePdf, Serialize(PagesOf(n))) : n \in 1..MaxPages}

InitLoad ==
    /\ mode = "load"
    /\ pc = "idle"
    /\ files \in LoadVaults
    /\ dirs = {<<"d">>}
    /\ sourceSize \in SourceSizes
    /\ stat = None
    /\ loads = <<>>
    /\ modalOpen = FALSE /\ pdfPath = SourcePdf /\ doc = None
    /\ startPage = 1 /\ endPage = 1
    /\ outputName = <<>> /\ outputDir = <<>> /\ notice = "none"
    /\ SaveUnused /\ PureUnused /\ ProvUnused

\* the size gate with the limit itself rejected
SizeExceedsInclusive(size) == size >= MAX_PDF_SIZE

\* stat.size > this.MAX_PDF_SIZE
SizeExceeds(size) == size > MAX_PDF_SIZE

\* loadPDF's catch: throw new Error(`Failed to load PDF: ${error.message}`)
LoadThrows(message) ==
    /\ result' = "failed" /\ error' = message
    /\ pc' = "returned"

\* const stat = await this.vault.adapter.stat(path), null when no file is there,
\* and the size check
LoadStat ==
    /\ mode = "load" /\ pc = "idle"
    /\ \E outcome \in {"ok", "fail"} :
          /\ calls' = Append(calls, CallOutcome("stat", pdfPath, outcome))
          /\ IF outcome = "fail"
             THEN LoadThrows("stat") /\ UNCHANGED stat
             ELSE /\ stat' = IF FileAt(files, pdfPath) # None THEN Some(sourceSize) ELSE None
                  /\ IF stat' # None /\ SizeExceeds(stat'[1])
                     THEN LoadThrows("File size exceeds maximum allowed size")
                     ELSE pc' = "readBinary" /\ UNCHANGED <<result, error>>
    /\ UNCHANGED <<fsVars, modalVars, caller, newDoc, outputPath, safePath, tempPath,
                   pdfBytes, preFiles, preDirs, ops, pureVars, provVars, sourceSize, loads,
                   mode>>

\* const pdfFile = await this.vault.adapter.readBinary(path)
LoadReadBinary ==
    /\ mode = "load" /\ pc = "readBinary"
    /\ \E outcome \in {"ok", "fail"} :
          IF outcome = "ok" /\ FileAt(files, pdfPath) # None
          THEN /\ calls' = Append(calls, Call("readBinary", pdfPath))
               /\ pdfBytes' = FileAt(files, pdfPath)
               /\ pc' = "load"
               /\ UNCHANGED <<result, error>>
          ELSE /\ calls' = Append(calls, CallOutcome("readBinary", pdfPath, "fail"))
               /\ LoadThrows("readBinary")
               /\ UNCHANGED pdfBytes
    /\ UNCHANGED <<fsVars, modalVars, caller, newDoc, outputPath, safePath, tempPath,
                   preFiles, preDirs, ops, pureVars, provVars, loadVars, mode>>

\* const doc = await PDFDocument.load(pdfFile); return doc
LoadParse ==
    /\ mode = "load" /\ pc = "load"
    /\ IF Parse(pdfBytes[1]) = None
       THEN LoadThrows("PDFDocument.load") /\ UNCHANGED doc
       ELSE /\ doc' = Parse(pdfBytes[1])
            /\ result' = "ok" /\ pc' = "returned"
            /\ UNCHANGED error
    /\ UNCHANGED <<fsVars, modalOpen, pdfPath, startPage, endPage, outputName, outputDir,
                   notice, caller, newDoc, outputPath, safePath, tempPath, pdfBytes, calls,
                   preFiles, preDirs, ops, pureVars, provVars, loadVars, mode>>

NextLoad == LoadStat \/ LoadReadBinary \/ LoadParse

SpecLoad == InitLoad /\ [][NextLoad]_vars

\* loadPDF's stat call returned
StatReturned == \E i \in 1..Len(calls) : calls[i].op = "stat" /\ calls[i].outcome = "ok"

\* the error of the size gate
SizeExceeded == "File size exceeds maximum allowed size"

\* C15: a source file of more than 100 MiB is rejected once stat has returned, with
\* the size-exceeded failure, no readBinary issued and no document produced; a
\* file of 100 MiB or less is never rejected with that failure
C15_SizeGate ==
    /\ (StatReturned /\ FileAt(files, pdfPath) # None /\ sourceSize > 100 * 1024 * 1024) =>
           /\ pc = "returned" /\ result = "failed" /\ error = SizeExceeded
           /\ doc = None /\ pdfBytes = None
           /\ \A i \in 1..Len(calls) : calls[i].op # "readBinary"
    /\ sourceSize <= 100 * 1024 * 1024 => error # SizeExceeded

\* C15 witness: a source PDF one byte over the limit was rejected by the size gate
C15_Witness ==
    /\ pc = "returned" /\ result = "failed" /\ error = SizeExceeded
    /\ sourceSize = 100 * 1024 * 1024 + 1
    /\ Parse(FileAt(files, pdfPath)[1]) # None

-----------------------------------------------------------------------------
(* PDFResectorModal: the modal opened from the file menu and its fields.    *)

\* String.prototype.toLowerCase, for the letters the model's names use
ToLowerCase(s) ==
    [i \in 1..Len(s) |->
        CASE s[i] = "P" -> "p" [] s[i] = "D" -> "d" [] s[i] = "F" -> "f"
          [] s[i] = "M" -> "m" [] s[i] = "N" -> "n" [] OTHER -> s[i]]

DotPdf == <<".", "p", "d", "f">>

\* PDFProcessor.loadPDF: the document of the file at path, None when the call
\* throws; outcome "fail" stands for every throw inside it (stat, the size
\* limit, readBinary, the parse), all of which loadPDFDocument turns into doc = null
loadPDF(f, path, outcome) ==
    IF outcome = "fail" \/ FileAt(f, path) = None THEN None
    ELSE Parse(FileAt(f, path)[1])

\* validateInput: the message of the first failed check, "none" when all pass
validateInput ==
    IF pdfPath = <<>> THEN "Please select a PDF file"
    ELSE IF doc = None THEN "PDF document not loaded"
    ELSE IF startPage = 0 \/ endPage = 0 \/ startPage > endPage
         THEN "Please enter valid page numbers"
    ELSE IF startPage < 1 \/ endPage > Len(doc[1])
         THEN "Page numbers must be between 1 and the page count"
    ELSE IF outputName = <<>> THEN "Please enter an output filename"
    ELSE "none"

\* what the user may type into the page fields, the directory field and the name field
PageInputs == 0..(MaxPages + 1)
OutputDirs == {<<>>, <<"e">>}
OutputNames == {<<>>, <<"o", "*">>, <<".", ".", "/", "o">>}

\* splitPDF's outputName with the .pdf extension ensured
WithPdfExtension(name) ==
    IF EndsWith(ToLowerCase(name), DotPdf) THEN name ELSE name \o DotPdf

\* splitPDF's outputPath for a source path, an output directory and an output name
OutputPathOf(sourcePath, dir, name) ==
    LET lastSlash == LastIndexOf(sourcePath, "/")
        sourceDirectory == SliceTo(sourcePath, IF lastSlash < 0 THEN 0 ELSE lastSlash)
        outputFolder == IF Trim(dir) # <<>>
                        THEN (IF StartsWith(dir, <<"/">>) THEN dir ELSE <<"/">> \o dir)
                        ELSE sourceDirectory
    IN  outputFolder \o (IF EndsWith(outputFolder, <<"/">>) THEN <<>> ELSE <<"/">>) \o name

\* the file-menu item: a new modal on the PDF, whose onOpen loads the document
OpenModal ==
    /\ mode = "modal" /\ pc = "idle" /\ ~modalOpen
    /\ modalOpen' = TRUE
    /\ pdfPath' = SourcePdf
    /\ startPage' = 1 /\ endPage' = 1
    /\ outputName' = <<>> /\ outputDir' = <<>>
    /\ \E outcome \in {"ok", "fail"} :
          /\ doc' = loadPDF(files, SourcePdf, outcome)
          /\ notice' = IF doc' # None /\ Len(doc'[1]) > 0 THEN "PDF loaded"
                       ELSE IF doc' = None THEN "Error loading PDF" ELSE "none"
    /\ UNCHANGED <<fsVars, saveVars, pureVars, loadVars, provVars, mode, pc>>

OnChangeStartPage ==
    /\ mode = "modal" /\ pc = "idle" /\ modalOpen
    /\ \E num \in PageInputs : startPage' = IF num > 0 THEN num ELSE startPage
    /\ UNCHANGED <<fsVars, modalOpen, pdfPath, doc, endPage, outputName, outputDir, notice,
                   saveVars, pureVars, loadVars, provVars, mode, pc>>

OnChangeEndPage ==
    /\ mode = "modal" /\ pc = "idle" /\ modalOpen
    /\ \E num \in PageInputs : endPage' = IF num > 0 THEN num ELSE endPage
    /\ UNCHANGED <<fsVars, modalOpen, pdfPath, doc, startPage, outputName, outputDir, notice,
                   saveVars, pureVars, loadVars, provVars, mode, pc>>

OnChangeOutputDir ==
    /\ mode = "modal" /\ pc = "idle" /\ modalOpen
    /\ outputDir' \in OutputDirs
    /\ UNCHANGED <<fsVars, modalOpen, pdfPath, doc, startPage, endPage, outputName, notice,
                   saveVars, pureVars, loadVars, provVars, mode, pc>>

OnChangeOutputName ==
    /\ mode = "modal" /\ pc = "idle" /\ modalOpen
    /\ outputName' \in OutputNames
    /\ UNCHANGED <<fsVars, modalOpen, pdfPath, doc, startPage, endPage, outputDir, notice,
                   saveVars, pureVars, loadVars, provVars, mode, pc>>

\* the locals of savePDF before its first statement
SaveLocalsCleared ==
    /\ safePath' = None /\ tempPath' = None /\ pdfBytes' = None

\* splitPDF up to its call of savePDF: validateInput, the source path, the .pdf
\* extension, extractPages, the output path and the isPathInVault check
SplitPDF ==
    /\ mode = "modal" /\ pc = "idle" /\ modalOpen /\ ops < MaxOps
    /\ ops' = ops + 1
    /\ calls' = <<>> /\ preFiles' = files /\ preDirs' = dirs
    /\ SaveLocalsCleared
    /\ IF validateInput # "none"
       THEN /\ notice' = validateInput
            /\ result' = "failed" /\ error' = "validateInput"
            /\ caller' = "none" /\ newDoc' = None /\ outputPath' = <<>>
            /\ UNCHANGED <<outputName, pc>>
       ELSE IF pdfPath \notin DOMAIN files
       THEN /\ notice' = "Error splitting PDF"
            /\ result' = "failed" /\ error' = "Could not resolve source file path"
            /\ caller' = "none" /\ newDoc' = None /\ outputPath' = <<>>
            /\ UNCHANGED <<outputName, pc>>
       ELSE LET name == WithPdfExtension(outputName)
                r == extractPages(doc[1], startPage, endPage)
                path == OutputPathOf(pdfPath, outputDir, name)
            IN  /\ outputName' = name
                /\ IF r.threw
                   THEN /\ notice' = "Error splitting PDF"
                        /\ result' = "failed" /\ error' = "copyPages"
                        /\ caller' = "none" /\ newDoc' = None /\ outputPath' = <<>>
                        /\ UNCHANGED pc
                   ELSE IF ~isPathInVault(path)
                   THEN /\ notice' = "Error splitting PDF"
                        /\ result' = "failed"
                        /\ error' = "Output path must be within the vault"
                        /\ caller' = "none" /\ newDoc' = Some(r.newDoc)
                        /\ outputPath' = path
                        /\ UNCHANGED pc
                   ELSE /\ caller' = "split"
                        /\ newDoc' = Some(r.newDoc)
                        /\ outputPath' = path
                        /\ result' = "none" /\ error' = "none"
                        /\ pc' = "validate"
                        /\ UNCHANGED notice
    /\ UNCHANGED <<fsVars, modalOpen, pdfPath, doc, startPage, endPage, outputDir,
                   pureVars, loadVars, provVars, mode>>

\* savePDF's frame is gone once it has settled towards splitPDF
SaveFrameDropped ==
    /\ caller' = "none"
    /\ newDoc' = None
    /\ SaveLocalsCleared
    /\ calls' = <<>> /\ preFiles' = files /\ preDirs' = dirs

\* splitPDF after savePDF resolved: the exists check, the Notice and close()
SplitPDFResolved ==
    /\ pc = "return" /\ caller = "split" /\ result = "ok"
    /\ notice' = "Successfully created"
    /\ modalOpen' = FALSE
    /\ pc' = "idle"
    /\ SaveFrameDropped
    /\ UNCHANGED <<fsVars, pdfPath, doc, startPage, endPage, outputName, outputDir,
                   outputPath, error, result, ops, pureVars, loadVars, provVars, mode>>

\* splitPDF's catch after savePDF rejected: the Notice, the modal stays open
SplitPDFRejected ==
    /\ pc = "return" /\ caller = "split" /\ result = "failed"
    /\ notice' = "Error splitting PDF"
    /\ pc' = "idle"
    /\ SaveFrameDropped
    /\ UNCHANGED <<fsVars, modalOpen, pdfPath, doc, startPage, endPage, outputName,
                   outputDir, outputPath, error, result, ops, pureVars, loadVars, provVars, mode>>

-----------------------------------------------------------------------------
(* PDFProcessor.savePDF, one action for each await.                         *)

DotTemp == <<".", "t", "e", "m", "p">>

\* the candidate paths savePDF is called with directly: an ordinary character, the
\* dot, the slash, the backslash, the colon and one more invalid character; the
\* path of the spec's scenario B, "../../etc/passwd"; and the filenames ". ." and
\* " ", which sanitizing turns into ".." and into the empty string
PathChars == {"a", ".", "/", "\\", ":", "*"}
ScenarioB == <<".", ".", "/", ".", ".", "/", "e", "t", "c", "/", "p", "a", "s", "s", "w", "d">>
BlankNames == {<<".", " ", ".">>, <<" ">>}
CandidatePaths == StringsUpTo(PathChars, MaxPathLen) \cup {ScenarioB} \cup BlankNames

\* the vaults a direct call starts from: empty, with an older file "a", and with
\* "a" and a stale "a.temp"
DirectVaults ==
    { EmptyVault,
      WriteFile(EmptyVault, <<"a">>, OldBytes),
      WriteFile(WriteFile(EmptyVault, <<"a">>, OldBytes), <<"a">> \o DotTemp, OldBytes) }

\* savePDF called by a caller other than the modal
CallSavePDF ==
    /\ mode = "direct" /\ pc = "idle" /\ ops = 0
    /\ ops' = 1
    /\ caller' = "direct"
    /\ outputPath' \in CandidatePaths
    /\ newDoc' = Some(<<1>>)
    /\ calls' = <<>> /\ preFiles' = files /\ preDirs' = dirs
    /\ SaveLocalsCleared
    /\ result' = "none" /\ error' = "none"
    /\ pc' = "validate"
    /\ UNCHANGED <<fsVars, modalVars, pureVars, loadVars, provVars, mode>>

\* validateAndCreatePath throws: savePDF rejects before its try block
ValidateThrows(message) ==
    /\ result' = "failed" /\ error' = message
    /\ pc' = "return"
    /\ UNCHANGED <<safePath, tempPath>>

\* validateAndCreatePath returns the safe path: savePDF derives the temp path and
\* goes on to doc.save(), ensureSafeOutput goes on to exists(safePath)
ValidateReturns ==
    /\ safePath' = Some(SafePathOf(outputPath))
    /\ IF caller = "ensureSafeOutput"
       THEN tempPath' = None /\ pc' = "gateExists"
       ELSE tempPath' = Some(SafePathOf(outputPath) \o DotTemp) /\ pc' = "serialize"
    /\ UNCHANGED <<result, error>>

\* validateAndCreatePath provisioning the directory before it validates the path
SaveValidateCreatesFirst ==
    /\ pc = "validate"
    /\ LET dir == DirectoryOf(outputPath)
       IN  /\ calls' = calls \o <<Call("exists", dir), Call("mkdir", dir)>>
           /\ dirs' = MakeDir(dirs, dir)
           /\ IF ~isPathInVault(outputPath)
              THEN ValidateThrows("Invalid path")
              ELSE ValidateReturns
    /\ UNCHANGED <<files, modalVars, caller, newDoc, outputPath, pdfBytes, preFiles,
                   preDirs, ops, pureVars, loadVars, provVars, mode>>

\* await this.safetyUtils.validateAndCreatePath(outputPath)
SaveValidate ==
    /\ pc = "validate"
    /\ IF ~isPathInVault(outputPath)
       THEN /\ ValidateThrows("Invalid path")
            /\ UNCHANGED <<dirs, calls>>
       ELSE LET dir == DirectoryOf(outputPath)
            IN  IF dir = <<>>
                THEN /\ ValidateReturns
                     /\ UNCHANGED <<dirs, calls>>
                ELSE IF Exists(files, dirs, dir)
                THEN /\ calls' = Append(calls, Call("exists", dir))
                     /\ ValidateReturns
                     /\ UNCHANGED dirs
                ELSE \E outcome \in {"ok", "fail"} :
                        IF outcome = "ok" /\ CanMakeDir(files, dir)
                        THEN /\ calls' = calls \o <<Call("exists", dir), Call("mkdir", dir)>>
                             /\ dirs' = MakeDir(dirs, dir)
                             /\ ValidateReturns
                        ELSE /\ calls' = calls \o <<Call("exists", dir),
                                                   CallOutcome("mkdir", dir, "fail")>>
                             /\ ValidateThrows("Failed to create directory")
                             /\ UNCHANGED dirs
    /\ UNCHANGED <<files, modalVars, caller, newDoc, outputPath, pdfBytes, preFiles,
                   preDirs, ops, pureVars, loadVars, provVars, mode>>

\* const pdfBytes = await doc.save()
SaveSerialize ==
    /\ pc = "serialize"
    /\ \E outcome \in {"ok", "fail"} :
          IF outcome = "ok"
          THEN /\ pdfBytes' = Some(Serialize(newDoc[1]))
               /\ pc' = "writeTemp"
               /\ UNCHANGED error
          ELSE /\ error' = "serialize"
               /\ pc' = "catch"
               /\ UNCHANGED pdfBytes
    /\ UNCHANGED <<fsVars, modalVars, caller, newDoc, outputPath, safePath, tempPath,
                   result, calls, preFiles, preDirs, ops, pureVars, loadVars, provVars, mode>>

\* the outcomes of adapter.writeBinary: the bytes are stored; the call throws and
\* stores nothing; the call returns and the bytes are not there (an adapter of weak
\* durability, which the verification step is for)
WriteOutcomes == {"ok", "fail", "lost"}

\* the temp write with its failure swallowed: savePDF goes on to the final path
SaveWriteTempErrorIgnored ==
    /\ pc = "writeTemp"
    /\ \E outcome \in WriteOutcomes :
          /\ calls' = Append(calls, CallOutcome("writeBinary", tempPath[1], outcome))
          /\ files' = IF outcome = "ok" THEN WriteFile(files, tempPath[1], pdfBytes[1])
                      ELSE files
    /\ pc' = "removeOld"
    /\ UNCHANGED <<dirs, modalVars, caller, newDoc, outputPath, safePath, tempPath,
                   pdfBytes, error, result, preFiles, preDirs, ops, pureVars, loadVars,
                   provVars, mode>>

\* await this.vault.adapter.writeBinary(tempPath, pdfBytes.buffer)
SaveWriteTemp ==
    /\ pc = "writeTemp"
    /\ \E outcome \in WriteOutcomes :
          /\ calls' = Append(calls, CallOutcome("writeBinary", tempPath[1], outcome))
          /\ files' = IF outcome = "ok" THEN WriteFile(files, tempPath[1], pdfBytes[1])
                      ELSE files
          /\ IF outcome = "fail"
             THEN error' = "writeTemp" /\ pc' = "catch"
             ELSE pc' = "removeOld" /\ UNCHANGED error
    /\ UNCHANGED <<dirs, modalVars, caller, newDoc, outputPath, safePath, tempPath,
                   pdfBytes, result, preFiles, preDirs, ops, pureVars, loadVars, provVars, mode>>

\* if (await this.vault.adapter.exists(safePath)) await this.vault.adapter.remove(safePath)
SaveRemoveOld ==
    /\ pc = "removeOld"
    /\ IF Exists(files, dirs, safePath[1])
       THEN \E outcome \in {"ok", "fail"} :
                  IF outcome = "ok" /\ AdapterPath(safePath[1]) \in DOMAIN files
                  THEN /\ calls' = calls \o <<Call("exists", safePath[1]),
                                              Call("remove", safePath[1])>>
                       /\ files' = RemoveFile(files, safePath[1])
                       /\ pc' = "writeFinal"
                       /\ UNCHANGED error
                  ELSE /\ calls' = calls \o <<Call("exists", safePath[1]),
                                              CallOutcome("remove", safePath[1], "fail")>>
                       /\ error' = "removeOld"
                       /\ pc' = "catch"
                       /\ UNCHANGED files
       ELSE /\ calls' = Append(calls, Call("exists", safePath[1]))
            /\ pc' = "writeFinal"
            /\ UNCHANGED <<files, error>>
    /\ UNCHANGED <<dirs, modalVars, caller, newDoc, outputPath, safePath, tempPath,
                   pdfBytes, result, preFiles, preDirs, ops, pureVars, loadVars, provVars, mode>>

\* await this.vault.adapter.writeBinary(safePath, pdfBytes.buffer)
SaveWriteFinal ==
    /\ pc = "writeFinal"
    /\ \E outcome \in WriteOutcomes :
          /\ calls' = Append(calls, CallOutcome("writeBinary", safePath[1], outcome))
          /\ files' = IF outcome = "ok" THEN WriteFile(files, safePath[1], pdfBytes[1])
                      ELSE files
          /\ IF outcome = "fail"
             THEN error' = "writeFinal" /\ pc' = "catch"
             ELSE pc' = "cleanup" /\ UNCHANGED error
    /\ UNCHANGED <<dirs, modalVars, caller, newDoc, outputPath, safePath, tempPath,
                   pdfBytes, result, preFiles, preDirs, ops, pureVars, loadVars, provVars, mode>>

\* the vault after adapter.remove(p) with the given outcome: a throw removes nothing
AfterRemove(f, p, outcome) == IF outcome = "ok" THEN RemoveFile(f, p) ELSE f

\* the cleanup whose failure ends savePDF at once, the verification skipped
SaveCleanupTempFailureReturns ==
    /\ pc = "cleanup"
    /\ \E outcome \in {"ok", "fail"} :
          /\ calls' = Append(calls, CallOutcome("remove", tempPath[1], outcome))
          /\ files' = AfterRemove(files, tempPath[1], outcome)
          /\ IF outcome = "fail"
             THEN result' = "ok" /\ pc' = "return"
             ELSE pc' = "verify" /\ UNCHANGED result
    /\ UNCHANGED <<dirs, modalVars, caller, newDoc, outputPath, safePath, tempPath,
                   pdfBytes, error, preFiles, preDirs, ops, pureVars, loadVars, provVars,
                   mode>>

\* the inner try of the success path: remove(tempPath), a failure only warned about
SaveCleanupTemp ==
    /\ pc = "cleanup"
    /\ \E outcome \in {"ok", "fail"} :
          /\ calls' = Append(calls, CallOutcome("remove", tempPath[1], outcome))
          /\ files' = AfterRemove(files, tempPath[1], outcome)
    /\ pc' = "verify"
    /\ UNCHANGED <<dirs, modalVars, caller, newDoc, outputPath, safePath, tempPath,
                   pdfBytes, error, result, preFiles, preDirs, ops, pureVars, loadVars,
                   provVars, mode>>

\* the catch block throwing at once, the temp file left where it is
SaveCatchNoCleanup ==
    /\ pc = "catch"
    /\ result' = "failed"
    /\ pc' = "return"
    /\ UNCHANGED <<fsVars, modalVars, caller, newDoc, outputPath, safePath, tempPath,
                   pdfBytes, error, calls, preFiles, preDirs, ops, pureVars, loadVars,
                   provVars, mode>>

\* the catch block throwing the error of its own failed cleanup
SaveCatchCleanupErrorThrown ==
    /\ pc = "catch"
    /\ \E outcome \in {"ok", "fail"} :
          /\ calls' = Append(calls, CallOutcome("remove", tempPath[1], outcome))
          /\ files' = AfterRemove(files, tempPath[1], outcome)
          /\ error' = IF outcome = "fail" THEN "cleanup" ELSE error
    /\ result' = "failed"
    /\ pc' = "return"
    /\ UNCHANGED <<dirs, modalVars, caller, newDoc, outputPath, safePath, tempPath,
                   pdfBytes, preFiles, preDirs, ops, pureVars, loadVars, provVars, mode>>

\* the catch block: remove(tempPath), a failure only warned about, then
\* throw new Error(`Failed to save PDF: ${error.message}`)
SaveCatch ==
    /\ pc = "catch"
    /\ \E outcome \in {"ok", "fail"} :
          /\ calls' = Append(calls, CallOutcome("remove", tempPath[1], outcome))
          /\ files' = AfterRemove(files, tempPath[1], outcome)
    /\ result' = "failed"
    /\ pc' = "return"
    /\ UNCHANGED <<dirs, modalVars, caller, newDoc, outputPath, safePath, tempPath,
                   pdfBytes, error, preFiles, preDirs, ops, pureVars, loadVars, provVars, mode>>

\* the verification step reporting success without looking at the file
SaveVerifyUnchecked ==
    /\ pc = "verify"
    /\ calls' = Append(calls, Call("exists", safePath[1]))
    /\ result' = "ok"
    /\ pc' = "return"
    /\ UNCHANGED <<fsVars, modalVars, caller, newDoc, outputPath, safePath, tempPath,
                   pdfBytes, error, preFiles, preDirs, ops, pureVars, loadVars, provVars, mode>>

\* the second try: exists(safePath), and 'File was not saved successfully' when not
SaveVerify ==
    /\ pc = "verify"
    /\ calls' = Append(calls, Call("exists", safePath[1]))
    /\ IF Exists(files, dirs, safePath[1])
       THEN result' = "ok" /\ UNCHANGED error
       ELSE result' = "failed" /\ error' = "verify"
    /\ pc' = "return"
    /\ UNCHANGED <<fsVars, modalVars, caller, newDoc, outputPath, safePath, tempPath,
                   pdfBytes, preFiles, preDirs, ops, pureVars, loadVars, provVars, mode>>

\* PDFProcessor.ensureSafeOutput called: nothing in the plugin calls it, a caller
\* other than the modal does
CallEnsureSafeOutput ==
    /\ mode = "direct" /\ pc = "idle" /\ ops = 0
    /\ ops' = 1
    /\ caller' = "ensureSafeOutput"
    /\ outputPath' \in CandidatePaths
    /\ newDoc' = None
    /\ calls' = <<>> /\ preFiles' = files /\ preDirs' = dirs
    /\ SaveLocalsCleared
    /\ result' = "none" /\ error' = "none"
    /\ pc' = "validate"
    /\ UNCHANGED <<fsVars, modalVars, pureVars, loadVars, provVars, mode>>

\* if (await this.vault.adapter.exists(safePath)): the Notice with its two buttons
\* when something is there, return true when nothing is
EnsureSafeOutputExists ==
    /\ pc = "gateExists"
    /\ calls' = Append(calls, Call("exists", safePath[1]))
    /\ IF Exists(files, dirs, safePath[1])
       THEN /\ notice' = "already exists. Overwrite?"
            /\ pc' = "gateAsk"
            /\ UNCHANGED result
       ELSE /\ result' = "true"
            /\ pc' = "return"
            /\ UNCHANGED notice
    /\ UNCHANGED <<fsVars, modalOpen, pdfPath, doc, startPage, endPage, outputName,
                   outputDir, caller, newDoc, outputPath, safePath, tempPath, pdfBytes,
                   error, preFiles, preDirs, ops, pureVars, loadVars, provVars, mode>>

\* the Notice's button that was clicked settles the promise
OnClickResolves(value) ==
    /\ pc = "gateAsk"
    /\ notice' = "none"
    /\ result' = value
    /\ pc' = "return"
    /\ UNCHANGED <<fsVars, modalOpen, pdfPath, doc, startPage, endPage, outputName,
                   outputDir, caller, newDoc, outputPath, safePath, tempPath, pdfBytes,
                   error, calls, preFiles, preDirs, ops, pureVars, loadVars, provVars, mode>>

\* the Overwrite button: notice.hide(); resolve(true)
OnClickOverwrite == OnClickResolves("true")

\* the Cancel button: notice.hide(); resolve(false)
OnClickCancel == OnClickResolves("false")

\* savePDF or ensureSafeOutput settles towards a caller other than the modal
DirectReturn ==
    /\ pc = "return" /\ caller \in {"direct", "ensureSafeOutput"}
    /\ pc' = "done"
    /\ UNCHANGED <<fsVars, modalVars, saveVars, pureVars, loadVars, provVars, mode>>

-----------------------------------------------------------------------------
(* Spec: the plugin driven through the modal, and savePDF called directly.  *)

\* the vaults the modal starts from: the source PDF alone, and with an older
\* "d/o-.pdf" beside it
SourceVault == WriteFile(EmptyVault, SourcePdf, Serialize(PagesOf(MaxPages)))
OldOutput == <<"d", "/", "o", "-">> \o DotPdf
ModalVaults == {SourceVault, WriteFile(SourceVault, OldOutput, OldBytes)}

Init ==
    /\ pc = "idle"
    /\ \/ /\ mode = "modal"
          /\ files \in ModalVaults
          /\ dirs = {<<"d">>}
       \/ /\ mode = "direct"
          /\ files \in DirectVaults
          /\ dirs = {}
    /\ ModalUnused /\ SaveUnused /\ PureUnused /\ ProvUnused /\ LoadUnused

Next ==
    \/ OpenModal
    \/ OnChangeStartPage
    \/ OnChangeEndPage
    \/ OnChangeOutputDir
    \/ OnChangeOutputName
    \/ SplitPDF
    \/ SplitPDFResolved
    \/ SplitPDFRejected
    \/ CallSavePDF
    \/ CallEnsureSafeOutput
    \/ EnsureSafeOutputExists
    \/ OnClickOverwrite
    \/ OnClickCancel
    \/ SaveValidate
    \/ SaveSerialize
    \/ SaveWriteTemp
    \/ SaveRemoveOld
    \/ SaveWriteFinal
    \/ SaveCleanupTemp
    \/ SaveCatch
    \/ SaveVerify
    \/ DirectReturn

Spec == Init /\ [][Next]_vars

-----------------------------------------------------------------------------
(* SpecModalLoad: the modal opened by the 'Split PDF' command, whose path    *)
(* field is enabled: each change of the path starts a load, the loads settle *)
(* in any order, and Split PDF may be clicked at any time.                  *)

\* a second PDF, "d/t.pdf", whose pages differ from the first's, and a file that
\* is no PDF, "d/u.pdf"
OtherPdf == <<"d", "/", "t", ".", "p", "d", "f">>
OtherPages == [i \in 1..MaxPages |-> MaxPages + i]
NotAPdf == <<"d", "/", "u", ".", "p", "d", "f">>

CommandVault ==
    WriteFile(WriteFile(SourceVault, OtherPdf, Serialize(OtherPages)), NotAPdf, Garbage)

\* what the user may have in the path field after a change
PdfPaths == {<<>>, SourcePdf, OtherPdf, NotAPdf}

InitModalLoad ==
    /\ mode = "modal"
    /\ pc = "idle"
    /\ files = CommandVault
    /\ dirs = {<<"d">>}
    /\ ModalUnused /\ SaveUnused /\ PureUnused /\ ProvUnused /\ LoadUnused

\* the command's callback: new PDFResectorModal(this.app, this).open(); onOpen
\* starts no load, pdfPath being empty
OpenModalFromCommand ==
    /\ mode = "modal" /\ pc = "idle" /\ ~modalOpen
    /\ modalOpen' = TRUE
    /\ pdfPath' = <<>>
    /\ doc' = None
    /\ startPage' = 1 /\ endPage' = 1
    /\ outputName' = <<>> /\ outputDir' = <<>>
    /\ loads' = <<>>
    /\ UNCHANGED <<fsVars, notice, saveVars, pureVars, provVars, sourceSize, stat, mode, pc>>

\* pathInput's onChange up to its await: this.pdfPath = value, and
\* loadPDFDocument calling loadPDF(this.pdfPath)
OnChangePdfPath ==
    /\ mode = "modal" /\ pc = "idle" /\ modalOpen
    /\ Len(loads) < MaxLoads
    /\ \E value \in PdfPaths :
          /\ pdfPath' = value
          /\ loads' = Append(loads, value)
    /\ UNCHANGED <<fsVars, modalOpen, doc, startPage, endPage, outputName, outputDir, notice,
                   saveVars, pureVars, provVars, sourceSize, stat, mode, pc>>

\* one of the loadPDF calls settles: this.doc = the document when it resolved, the
\* Notice of the catch and this.doc as it was when it rejected
LoadPDFDocumentSettles ==
    /\ mode = "modal" /\ modalOpen
    /\ \E i \in 1..Len(loads) : \E outcome \in {"ok", "fail"} :
          LET loaded == loadPDF(files, loads[i], outcome)
          IN  /\ loads' = SubSeq(loads, 1, i - 1) \o SubSeq(loads, i + 1, Len(loads))
              /\ IF loaded # None
                 THEN /\ doc' = loaded
                      /\ notice' = IF Len(loaded[1]) > 0 THEN "PDF loaded" ELSE notice
                 ELSE /\ notice' = "Error loading PDF"
                      /\ UNCHANGED doc
    /\ UNCHANGED <<fsVars, modalOpen, pdfPath, startPage, endPage, outputName, outputDir,
                   saveVars, pureVars, provVars, sourceSize, stat, mode, pc>>

NextModalLoad ==
    \/ OpenModalFromCommand
    \/ OnChangePdfPath
    \/ LoadPDFDocumentSettles
    \/ OnChangeOutputName
    \/ SplitPDF
    \/ SplitPDFResolved
    \/ SplitPDFRejected
    \/ SaveValidate
    \/ SaveSerialize
    \/ SaveWriteTemp
    \/ SaveRemoveOld
    \/ SaveWriteFinal
    \/ SaveCleanupTemp
    \/ SaveCatch
    \/ SaveVerify

SpecModalLoad == InitModalLoad /\ [][NextModalLoad]_vars

\* the document of the file at the modal's current pdfPath, None when there is none
DocumentAtPath == loadPDF(files, pdfPath, "ok")

\* C24 as claimed: the document the modal holds is the document of the file at the
\* current pdfPath, and the pages splitPDF extracted are pages of that document
C24_DocMatchesPath ==
    /\ (modalOpen /\ doc # None) => doc = DocumentAtPath
    /\ (caller = "split" /\ newDoc # None) =>
           /\ DocumentAtPath # None
           /\ newDoc[1] = extractPages(DocumentAtPath[1], startPage, endPage).newDoc

-----------------------------------------------------------------------------
(* Properties of savePDF and splitPDF, checked under Spec.                  *)

\* the path savePDF writes the document to: safePath once validateAndCreatePath
\* has returned it, the candidate path before
FinalPath == IF safePath # None THEN safePath[1] ELSE outputPath

\* savePDF has settled and its frame is still there
SaveSettled == pc \in {"return", "done"}

\* the adapter calls that change the vault
Mutations == {"mkdir", "writeBinary", "remove"}

\* C1 as claimed: whenever savePDF reports a failure, the file at finalPath is as it
\* was before the call: absent if it was absent, its former bytes if it was there
C1_FailureKeepsFinalPath ==
    (SaveSettled /\ result = "failed") =>
        FileAt(files, FinalPath) = FileAt(preFiles, FinalPath)

\* C2 as claimed: in a split operation a file that was at the final path is removed
\* or written over only after the conflict gate (ensureSafeOutput) was called for
\* an overwrite decision
C2_OverwriteOnlyAfterDecision ==
    (caller = "split" /\ safePath # None) =>
        \A i \in 1..Len(calls) :
            (/\ calls[i].op \in {"remove", "writeBinary"}
             /\ calls[i].path = safePath[1]
             /\ FileAt(preFiles, safePath[1]) # None)
            => \E j \in 1..(i - 1) : calls[j].op = "ensureSafeOutput"

\* C3: whenever savePDF reports success, the file at finalPath holds exactly the
\* bytes doc.save() gave for the document
C3_SuccessStoresBytes ==
    (SaveSettled /\ result = "ok") =>
        FileAt(files, safePath[1]) = Some(Serialize(newDoc[1]))

\* C3 witness: savePDF reported success after writing over an older file
C3_Witness ==
    /\ SaveSettled /\ result = "ok"
    /\ FileAt(preFiles, safePath[1]) = Some(OldBytes)
    /\ FileAt(files, safePath[1]) = Some(Serialize(newDoc[1]))
    /\ OldBytes # Serialize(newDoc[1])

HasTraversal(path) ==
    Includes(path, <<".", ".", "/">>) \/ Includes(path, <<".", ".", "\\">>)

\* C4: a candidate path containing '../' or '..\' is rejected by isPathInVault, and
\* validateAndCreatePath never returns a path for it: savePDF and splitPDF end in
\* failure without a safe path
C4_TraversalRejected ==
    HasTraversal(outputPath) =>
        /\ ~isPathInVault(outputPath)
        /\ safePath = None
        /\ pc \in {"idle", "validate", "return", "done"}
        /\ pc # "validate" => result = "failed"

\* C4 witness: "a../", which only the textual guard rejects, was rejected
C4_Witness ==
    /\ pc = "done"
    /\ outputPath = <<"a", ".", ".", "/">>
    /\ result = "failed" /\ error = "Invalid path"
    /\ safePath = None

\* the errors of a candidate output path rejected by validation: in
\* validateAndCreatePath and in splitPDF
PathRejections == {"Invalid path", "Output path must be within the vault"}

\* C5: when the output path is rejected by validation, no mkdir, writeBinary or
\* remove was issued and the vault is as it was before the operation
C5_RejectedPathNoMutation ==
    (result = "failed" /\ error \in PathRejections) =>
        /\ files = preFiles
        /\ dirs = preDirs
        /\ \A i \in 1..Len(calls) : calls[i].op \notin Mutations

\* C5 witness: scenario B, "../../etc/passwd", rejected by savePDF in a vault that
\* holds a file
C5_Witness ==
    /\ pc = "done"
    /\ outputPath = ScenarioB
    /\ result = "failed" /\ error \in PathRejections
    /\ files = WriteFile(EmptyVault, <<"a">>, OldBytes)
    /\ dirs = {}

\* the segments of a path: its leading and trailing slashes stripped, split on '/'
SegmentsOf(path) ==
    LET first == CHOOSE i \in 1..(Len(path) + 1) :
                     /\ \A j \in 1..(i - 1) : path[j] = "/"
                     /\ i <= Len(path) => path[i] # "/"
        last == CHOOSE i \in 0..Len(path) :
                     /\ \A j \in (i + 1)..Len(path) : path[j] = "/"
                     /\ i >= 1 => path[i] # "/"
    IN  Split(SubSeq(path, first, last), "/")

\* the candidate path has passed isPathInVault: validateAndCreatePath returned a
\* path for it, or splitPDF went on to savePDF with it
PathAccepted == safePath # None \/ (caller = "split" /\ pc = "validate")

\* C14: every segment of an accepted candidate path is non-empty, is not "." or
\* "..", and holds no backslash and no colon
C14_AcceptedSegments ==
    PathAccepted =>
        \A k \in 1..Len(SegmentsOf(outputPath)) :
            LET seg == SegmentsOf(outputPath)[k]
            IN  /\ Len(seg) > 0
                /\ seg \notin {<<".">>, <<".", ".">>}
                /\ \A i \in 1..Len(seg) : seg[i] \notin {"\\", ":"}

\* C14 witness: "/a/a", of two segments behind a leading slash, was accepted and
\* saved
C14_Witness ==
    /\ pc = "done" /\ caller = "direct" /\ result = "ok"
    /\ outputPath = <<"/", "a", "/", "a">>
    /\ safePath = Some(<<"/", "a", "/", "a">>)
    /\ SegmentsOf(outputPath) = <<<<"a">>, <<"a">>>>

-----------------------------------------------------------------------------
(* Properties of savePDF's adapter calls, checked under Spec.               *)

\* savePDF is past validateAndCreatePath and its frame is still there
InSavePDF == caller \in {"split", "direct"} /\ tempPath # None

\* the calls savePDF itself issued, on the final path and on the temp path, each
\* as its operation and the path it was on
SaveCalls ==
    LET own == SelectSeq(calls, LAMBDA c : c.path \in {safePath[1], tempPath[1]})
    IN  [i \in 1..Len(own) |->
            <<own[i].op, IF own[i].path = tempPath[1] THEN "temp" ELSE "final">>]

\* the order of a save that runs to its end, with and without a file to remove
FullOrder(removing) ==
    <<<<"writeBinary", "temp">>, <<"exists", "final">>>>
        \o (IF removing THEN <<<<"remove", "final">>>> ELSE <<>>)
        \o <<<<"writeBinary", "final">>, <<"remove", "temp">>, <<"exists", "final">>>>

\* the orders the claim allows: a full order up to any call, and up to any call
\* before the final write's end followed by the catch block's remove of the temp file
AllowedOrders ==
    UNION { {SubSeq(FullOrder(r), 1, n) : n \in 0..Len(FullOrder(r))}
              \cup {Append(SubSeq(FullOrder(r), 1, n), <<"remove", "temp">>) :
                       n \in 0..(Len(FullOrder(r)) - 3)} : r \in BOOLEAN }

\* the temp write of the running save threw
TempWriteFailed ==
    \E i \in 1..Len(calls) :
        calls[i] = CallOutcome("writeBinary", tempPath[1], "fail")

\* C17: savePDF's calls come in the order write-temp, exists, remove-old (only when
\* something was at the final path), write-final, remove-temp, exists; the final
\* path is removed or written only after a temp write that returned; and after a
\* temp write that threw the final path is never touched
C17_CallOrder ==
    InSavePDF =>
        /\ SaveCalls \in AllowedOrders
        /\ \A i \in 1..Len(calls) :
               (calls[i].path = safePath[1] /\ calls[i].op \in Mutations) =>
                   \E j \in 1..(i - 1) :
                       /\ calls[j].op = "writeBinary" /\ calls[j].path = tempPath[1]
                       /\ calls[j].outcome # "fail"
        /\ \A i \in 1..Len(calls) :
               (calls[i].path = safePath[1] /\ calls[i].op = "remove") =>
                   Exists(preFiles, dirs, safePath[1])
        /\ TempWriteFailed =>
               /\ \A i \in 1..Len(calls) :
                      ~(calls[i].path = safePath[1] /\ calls[i].op \in Mutations)
               /\ FileAt(files, safePath[1]) = FileAt(preFiles, safePath[1])
        /\ (SaveSettled /\ result = "ok") =>
               SaveCalls = FullOrder(FileAt(preFiles, safePath[1]) # None)

\* C17 witness: a save over an older file ran to its end through all six calls
C17_Witness ==
    /\ InSavePDF /\ SaveSettled /\ result = "ok"
    /\ FileAt(preFiles, safePath[1]) = Some(OldBytes)
    /\ SaveCalls = FullOrder(TRUE)

\* the final write of the running save returned
FinalWriteReturned ==
    \E i \in 1..Len(calls) :
        /\ calls[i].op = "writeBinary" /\ calls[i].path = safePath[1]
        /\ calls[i].outcome # "fail"

\* a remove of the temp file threw in the running save
CleanupFailed ==
    \E i \in 1..Len(calls) : calls[i] = CallOutcome("remove", tempPath[1], "fail")

\* C18: once the final write has returned, savePDF settles only after the exists
\* check of the final path, and with no file there it reports the verification
\* failure, whether the cleanup of the temp file failed or not
C18_VerificationFailure ==
    (InSavePDF /\ SaveSettled /\ FinalWriteReturned) =>
        /\ calls[Len(calls)] = Call("exists", safePath[1])
        /\ calls[Len(calls) - 1].op = "remove" /\ calls[Len(calls) - 1].path = tempPath[1]
        /\ FileAt(files, safePath[1]) = None => (result = "failed" /\ error = "verify")
        /\ FileAt(files, safePath[1]) # None => result = "ok"

\* C18 witness: the final write returned without storing the file, the cleanup of
\* the temp file failed, and savePDF reported the verification failure
C18_Witness ==
    /\ InSavePDF /\ SaveSettled /\ FinalWriteReturned /\ CleanupFailed
    /\ FileAt(files, safePath[1]) = None
    /\ FileAt(files, tempPath[1]) # None
    /\ result = "failed" /\ error = "verify"

\* the step of the try block whose throw sent savePDF to its catch block: the
\* first call that threw, doc.save() when no call before the catch block did
PrimaryFailure ==
    LET threw(op, path) == \E i \in 1..Len(calls) : calls[i] = CallOutcome(op, path, "fail")
    IN  IF threw("writeBinary", tempPath[1]) THEN "writeTemp"
        ELSE IF threw("remove", safePath[1]) THEN "removeOld"
        ELSE IF threw("writeBinary", safePath[1]) THEN "writeFinal"
        ELSE "serialize"

\* C19: when the remove of the temp file failed, savePDF still reports success if
\* the final write returned and the file is there, and reports the failure of the
\* step that failed first if an earlier step failed
C19_CleanupNeverDecides ==
    (InSavePDF /\ SaveSettled /\ CleanupFailed) =>
        /\ (FinalWriteReturned /\ FileAt(files, safePath[1]) # None) =>
               (result = "ok" /\ error = "none")
        /\ ~FinalWriteReturned => (result = "failed" /\ error = PrimaryFailure)

\* C19 witness: the final write threw over a removed older file, the remove of the
\* temp file threw too, and savePDF reported the failure of the final write
C19_Witness ==
    /\ InSavePDF /\ SaveSettled /\ CleanupFailed
    /\ FileAt(preFiles, safePath[1]) # None
    /\ FileAt(files, tempPath[1]) # None
    /\ result = "failed" /\ error = "writeFinal"

\* C20: when savePDF has settled past validateAndCreatePath, with success or with
\* a failure, and no remove of the temp file threw, no file is at the temp path
C20_TempFileRemoved ==
    (InSavePDF /\ SaveSettled /\ ~CleanupFailed) => FileAt(files, tempPath[1]) = None

\* C20 witness: the temp file was written, the final write threw, and the catch
\* block removed the temp file before savePDF reported the failure
C20_Witness ==
    /\ InSavePDF /\ SaveSettled /\ ~CleanupFailed
    /\ calls[1] = Call("writeBinary", tempPath[1])
    /\ calls[Len(calls)] = Call("remove", tempPath[1])
    /\ result = "failed" /\ error = "writeFinal"
    /\ FileAt(files, tempPath[1]) = None

\* C21 as claimed: when doc.save() failed, the vault is as it was before savePDF
\* was called: no directory created, no file written, no file removed
C21_SerializeFailureNoEffect ==
    (InSavePDF /\ SaveSettled /\ error = "serialize") =>
        /\ files = preFiles
        /\ dirs = preDirs

\* C23 as claimed: when savePDF has resolved towards splitPDF, the outputPath that
\* splitPDF goes on to check and to report names the file savePDF wrote, and once
\* splitPDF has reported success a file is at the path it reported
C23_ReportedPathWritten ==
    /\ (caller = "split" /\ pc = "return" /\ result = "ok") =>
           AdapterPath(outputPath) = AdapterPath(safePath[1])
    /\ (mode = "modal" /\ notice = "Successfully created") =>
           FileAt(files, outputPath) # None

\* the filename segment of a path: what follows its last slash
LastSegment(path) == SliceFrom(path, LastIndexOf(path, "/") + 1)

\* C16 as claimed: the filename segment of the path validateAndCreatePath returns
\* is non-empty and is neither "." nor ".."
C16_SafePathValid ==
    safePath # None =>
        /\ LastSegment(safePath[1]) # <<>>
        /\ LastSegment(safePath[1]) \notin {<<".">>, <<".", ".">>}

-----------------------------------------------------------------------------
(* Properties of ensureSafeOutput, checked under Spec.                      *)

\* ensureSafeOutput has returned a boolean
GateAnswered == caller = "ensureSafeOutput" /\ SaveSettled /\ result \in {"true", "false"}

\* C13 as claimed: the conflict check returns true when a file is at the path and
\* false when no file is there
C13_ConflictReported ==
    GateAnswered => (result = "true" <=> FileAt(files, safePath[1]) # None)

====
